---- MODULE Spec2Model ----
(***************************************************************************)
(* A model of mlflow/utils/rest_utils.py: the host credentials object, the *)
(* retrying HTTP transport (http_request over requests.Session mounted     *)
(* with an HTTPAdapter carrying a urllib3 Retry), the response verifier    *)
(* and the endpoint dispatcher.                                            *)
(*                                                                         *)
(* One HTTP attempt is one step: the server's answer to the attempt is the *)
(* step's input, and the step runs the client code up to the next attempt  *)
(* or up to the value or exception the entry point hands to its caller.    *)
(* Python's assert statements are modelled as executed (no -O).            *)
(***************************************************************************)
EXTENDS Integers, Sequences, FiniteSets, TLC

VARIABLES
    ctor_args,  \* the arguments of the last MlflowHostCreds(...) call
    creds,      \* the MlflowHostCreds object last constructed, or the error raised
    pc,         \* "idle" | "inflight" | "done": position of the logical call
    call,       \* arguments of the logical call in progress
    retry,      \* the urllib3 Retry object of the current urlopen chain
    hops,       \* redirects followed so far by requests.Session (len(resp.history))
    attempts,   \* HTTP requests put on the wire by this call
    lastSleep,  \* seconds slept between the previous attempt and the latest one
    seen,       \* classes of the server's answers so far in this call
    resp,       \* the response http_request returned / verify_rest_response was given
    result,     \* what the entry point returned or raised
    request,    \* what http_request last handed to requests: headers and keywords
    cloud,      \* arguments of the cloud_storage_http_request call in progress
    session,    \* "none" | "open" | "closed": the requests.Session of that call
    body,       \* "none" | "open" | "closed": the response yielded to the caller
    tally,      \* failures of each class the server has dealt that call
    api,        \* the last call of extract_api_info_for_service and its table
    threads,    \* the logical calls of the concurrent threads, one record each
    retries     \* the urllib3 Retry objects alive, by the call that holds them

vars == <<ctor_args, creds, pc, call, retry, hops, attempts, lastSleep, seen, resp, result, request, cloud, session, body, tally, api, threads, retries>>

\* The state of the request builder and of the cloud storage transport.
requestVars == <<request>>
cloudVars == <<cloud, session, body, tally>>
\* The state of the endpoint table and of the concurrent calls.
apiVars == <<api>>
concVars == <<threads, retries>>

None == "None"

----------------------------------------------------------------------------
(* Bounds of the model (environment), not program constants.               *)

\* Redirect responses the server serves within one logical call.
MaxRedirectsServed == 1
\* The largest valid max_retries a call is made with.
MaxRetriesTried == 2
\* The value of a Retry-After header, in seconds, when the server sends one.
RetryAfterSecs == 7
\* Redirect responses the server serves within one cloud storage transfer.
MaxCloudRedirects == 4
\* The methods of a service, and the endpoint bindings one method declares.
MaxServiceMethods == 2
MaxBindings == 2

----------------------------------------------------------------------------
(* Program constants.                                                      *)

\* assert 0 <= max_retries < 10
MaxRetriesLimit == 10
\* assert 0 <= backoff_factor < 120
BackoffFactorLimit == 120
\* urllib3 Retry.BACKOFF_MAX, the cap of one backoff sleep, in seconds
BACKOFF_MAX == 120
\* requests.Session.max_redirects (DEFAULT_REDIRECT_LIMIT)
DEFAULT_REDIRECT_LIMIT == 30
\* max_retries=3, the default of http_request
DefaultMaxRetries == 3
\* backoff_factor=5, the default of http_request
DefaultBackoffFactor == 5
\* kwargs.get("retry_attempts", 5)
DefaultRetryAttempts == 5
\* connect=0 of the Retry of cloud_storage_http_request
CloudConnectRetries == 0
\* read=1
CloudReadRetries == 1
\* redirect=3
CloudRedirectRetries == 3
\* backoff_factor=1
CloudBackoffFactor == 1

\* retry_codes=(429, 500, 503), the default of http_request
DefaultRetryCodes == {429, 500, 503}
\* urllib3 Retry.DEFAULT_ALLOWED_METHODS (Retry is built without allowed_methods)
DEFAULT_ALLOWED_METHODS == {"HEAD", "GET", "PUT", "DELETE", "OPTIONS", "TRACE"}
\* urllib3 Retry.RETRY_AFTER_STATUS_CODES
RETRY_AFTER_STATUS_CODES == {413, 429, 503}
\* requests REDIRECT_STATI
REDIRECT_STATI == {301, 302, 303, 307, 308}

\* _REST_API_PATH_PREFIX = "/api/2.0", as characters
REST_API_PATH_PREFIX == <<"/", "a", "p", "i", "/", "2", ".", "0">>

----------------------------------------------------------------------------
(* Inputs.                                                                 *)

Min(a, b) == IF a <= b THEN a ELSE b

Methods == {"GET", "POST"}
MaxRetriesArgs == {-1, MaxRetriesLimit} \cup 0 .. Min(MaxRetriesTried, MaxRetriesLimit - 1)
BackoffFactorArgs == {-1, 0, BackoffFactorLimit - 1, BackoffFactorLimit}
RetryCodesArgs == {DefaultRetryCodes}
EntryPoints == {"http_request", "http_request_safe", "call_endpoint"}

EP_RUNS == <<"/", "a", "p", "i", "/", "2", ".", "0", "/", "r">>
EP_SHORT == <<"/", "a", "p", "i", "/", "2">>
EP_EXACT == <<"/", "a", "p", "i", "/", "2", ".", "0">>
EP_FILES == <<"/", "d", "b", "f", "s", "/", "a">>
\* The endpoints verify_rest_response is called with, and those of the calls
\* that go through the transport.
Endpoints == {EP_RUNS, EP_EXACT, EP_SHORT, EP_FILES}
CallEndpoints == {EP_RUNS, EP_FILES}

\* Response bodies (response.text).
BODY_ERR == "{\"error_code\":\"RESOURCE_DOES_NOT_EXIST\",\"message\":\"x\"}"
BODY_OBJ == "{}"
BODY_TEXT == "not json"
BODY_EMPTY == ""
Bodies == {BODY_ERR, BODY_OBJ, BODY_TEXT, BODY_EMPTY}

\* What the server does with one HTTP attempt: the connection cannot be made,
\* the response cannot be read, or a response arrives.
ConnectFailure == [kind |-> "connect", status |-> 0, retry_after |-> 0, location |-> FALSE]
ReadFailure == [kind |-> "read", status |-> 0, retry_after |-> 0, location |-> FALSE]
Resp(status, retry_after, location) ==
    [kind |-> "response", status |-> status, retry_after |-> retry_after,
     location |-> location]
ServerResponses ==
    {Resp(s, 0, FALSE) : s \in {200, 404, 413, 429, 500, 302}}
    \cup {Resp(s, RetryAfterSecs, FALSE) : s \in {413, 429}}
    \cup {Resp(s, 0, TRUE) : s \in {302, 307}}
ServerOutcomes == {ConnectFailure, ReadFailure} \cup ServerResponses

----------------------------------------------------------------------------
(* Values handed to the caller.                                            *)

NoResp == [status |-> 0, text |-> None]
NoCall ==
    [entry |-> None, method |-> None, req_method |-> None, max_retries |-> 0,
     backoff_factor |-> 0, retry_codes |-> {}, endpoint |-> <<>>]
NoRetry ==
    [total |-> 0, connect |-> 0, read |-> 0, redirect |-> 0, status |-> 0,
     history |-> 0]

Pending ==
    [kind |-> "none", exc |-> None, error_code |-> None, msg |-> None,
     cause |-> None, status |-> 0, text |-> None]
\* return response
ReturnResponse(r) ==
    [kind |-> "response", exc |-> None, error_code |-> None, msg |-> None,
     cause |-> None, status |-> r.status, text |-> r.text]
\* return response_proto, filled from the body
ReturnProto(r) ==
    [kind |-> "proto", exc |-> None, error_code |-> None, msg |-> None,
     cause |-> None, status |-> r.status, text |-> r.text]
\* raise exc(...): error_code is the exception's error code, msg names the
\* message template, cause the wrapped exception, status and text what the
\* message (or the exception's json) carries of the response.
Raise(exc, error_code, msg, cause, status, text) ==
    [kind |-> "raise", exc |-> exc, error_code |-> error_code, msg |-> msg,
     cause |-> cause, status |-> status, text |-> text]

----------------------------------------------------------------------------
(* json.loads on the bodies of the model.                                  *)

\* json.loads(string): ok is FALSE when it raises; otherwise the parsed value.
JsonLoads(string) ==
    IF string = BODY_ERR
    THEN [ok |-> TRUE, error_code |-> "RESOURCE_DOES_NOT_EXIST", message |-> "x"]
    ELSE IF string = BODY_OBJ
    THEN [ok |-> TRUE, error_code |-> None, message |-> None]
    ELSE [ok |-> FALSE, error_code |-> None, message |-> None]

\* _can_parse_as_json(string)
can_parse_as_json(string) == JsonLoads(string).ok

\* RestException(json): a MlflowException whose error code is the body's
\* error_code, INTERNAL_ERROR when the body has none.
RestException(json, text, status) ==
    Raise("RestException",
          IF json.error_code = None THEN "INTERNAL_ERROR" ELSE json.error_code,
          "error_code: message", None, status, text)

\* endpoint.startswith(prefix)
startswith(s, prefix) ==
    /\ Len(s) >= Len(prefix)
    /\ \A i \in 1 .. Len(prefix) : s[i] = prefix[i]

----------------------------------------------------------------------------
(* The response verifier.                                                  *)

\* A verifier that never looks at the body of a failed response.
verify_status_only(response, endpoint) ==
    IF response.status # 200
    THEN Raise("MlflowException", "INTERNAL_ERROR", "failed with error code != 200",
               None, response.status, response.text)
    ELSE IF startswith(endpoint, REST_API_PATH_PREFIX)
            /\ ~can_parse_as_json(response.text)
    THEN Raise("MlflowException", "INTERNAL_ERROR", "body not in a valid JSON format",
               None, 0, response.text)
    ELSE ReturnResponse(response)

\* A verifier that wants JSON from every endpoint.
verify_every_endpoint(response, endpoint) ==
    IF response.status # 200
    THEN IF can_parse_as_json(response.text)
         THEN RestException(JsonLoads(response.text), response.text, response.status)
         ELSE Raise("MlflowException", "INTERNAL_ERROR", "failed with error code != 200",
                    None, response.status, response.text)
    ELSE IF ~can_parse_as_json(response.text)
    THEN Raise("MlflowException", "INTERNAL_ERROR", "body not in a valid JSON format",
               None, 0, response.text)
    ELSE ReturnResponse(response)

\* verify_rest_response(response, endpoint)
verify_rest_response(response, endpoint) ==
    IF response.status # 200
    THEN IF can_parse_as_json(response.text)
         THEN RestException(JsonLoads(response.text), response.text, response.status)
         ELSE Raise("MlflowException", "INTERNAL_ERROR", "failed with error code != 200",
                    None, response.status, response.text)
    ELSE IF startswith(endpoint, REST_API_PATH_PREFIX)
            /\ ~can_parse_as_json(response.text)
    THEN Raise("MlflowException", "INTERNAL_ERROR", "body not in a valid JSON format",
               None, 0, response.text)
    ELSE ReturnResponse(response)

----------------------------------------------------------------------------
(* urllib3's Retry, as the transport configures it.                        *)

\* Retry(total=max_retries, connect=max_retries, read=max_retries,
\*       redirect=max_retries, status=max_retries, ...): history is the
\* number of entries of Retry.history (none of them a redirect, since
\* requests calls urlopen with redirect=False).
RetryNew(max_retries) ==
    [total |-> max_retries, connect |-> max_retries, read |-> max_retries,
     redirect |-> max_retries, status |-> max_retries, history |-> 0]

\* Retry._is_method_retryable: allowed_methods is left at its default.
is_method_retryable(method) == method \in DEFAULT_ALLOWED_METHODS

\* response.get_redirect_location() / Response.is_redirect
is_redirect(o) ==
    o.kind = "response" /\ o.status \in REDIRECT_STATI /\ o.location

\* A retry policy that retries every response but a 200.
is_retry_unless_ok(r, retry_codes, method, o) == o.status # 200

\* Retry.is_retry(method, status_code, has_retry_after)
is_retry(r, retry_codes, method, o) ==
    IF ~is_method_retryable(method) THEN FALSE
    ELSE IF retry_codes # {} /\ o.status \in retry_codes THEN TRUE
    ELSE r.total # 0 /\ o.retry_after > 0 /\ o.status \in RETRY_AFTER_STATUS_CODES

\* A Retry that gives up one failure early.
is_exhausted_at_zero(r) ==
    \E c \in {r.total, r.connect, r.read, r.redirect, r.status} : c <= 0

\* Retry.is_exhausted(): some counter is below zero.
is_exhausted(r) ==
    \E c \in {r.total, r.connect, r.read, r.redirect, r.status} : c < 0

\* Retry.increment(method, url, response, error): the counters after the
\* failure o; every failure costs one of total and one of its own class.
increment(r, o) ==
    [total |-> r.total - 1,
     connect |-> IF o.kind = "connect" THEN r.connect - 1 ELSE r.connect,
     read |-> IF o.kind = "read" THEN r.read - 1 ELSE r.read,
     redirect |-> IF is_redirect(o) THEN r.redirect - 1 ELSE r.redirect,
     status |-> IF o.kind = "response" /\ ~is_redirect(o)
                THEN r.status - 1 ELSE r.status,
     history |-> r.history + 1]

\* A backoff that is the factor itself before every retry.
get_backoff_time_fixed(r, backoff_factor) == backoff_factor

\* Retry.get_backoff_time(): nothing after the first failure of a chain, then
\* backoff_factor * 2 ** (consecutive failures - 1), at most BACKOFF_MAX.
get_backoff_time(r, backoff_factor) ==
    IF r.history <= 1 THEN 0
    ELSE Min(BACKOFF_MAX, backoff_factor * 2 ^ (r.history - 1))

\* Retry.sleep(response): the Retry-After header of the response when it
\* carries one, the backoff time otherwise.
sleep(r, backoff_factor, o) ==
    IF o.kind = "response" /\ o.retry_after > 0 THEN o.retry_after
    ELSE get_backoff_time(r, backoff_factor)

\* A Retry built with raise_on_status=False.
raise_on_status_off == FALSE

\* Retry.raise_on_status, which the transport leaves at its default: when the
\* retries of a status are used up, urlopen raises MaxRetryError and does
\* not return the last response.
raise_on_status == TRUE

\* One pass of HTTPConnectionPool.urlopen(..., redirect=False, retries=r) over
\* the server's answer o, and what HTTPAdapter.send makes of a failure:
\*   next = "retry":  urlopen calls itself with the incremented Retry after sleeping
\*   next = "raise":  an exception of requests leaves the adapter (cause)
\*   next = "return": the response is handed to the session
urlopen(r, c, o) ==
    LET inc == increment(r, o)
        again == [next |-> "retry", retry |-> inc,
                  slept |-> sleep(inc, c.backoff_factor, o), cause |-> None]
        raise(cause) == [next |-> "raise", retry |-> r, slept |-> 0, cause |-> cause]
    IN  IF o.kind = "connect"
        THEN IF is_exhausted(inc) THEN raise("ConnectionError(MaxRetryError)") ELSE again
        ELSE IF o.kind = "read"
        THEN IF ~is_method_retryable(c.req_method) THEN raise("ConnectionError(read)")
             ELSE IF is_exhausted(inc) THEN raise("ConnectionError(MaxRetryError)")
             ELSE again
        ELSE IF is_retry(r, c.retry_codes, c.req_method, o)
        THEN IF ~is_exhausted(inc) THEN again
             ELSE IF raise_on_status THEN raise("RetryError(MaxRetryError)")
             ELSE [next |-> "return", retry |-> r, slept |-> 0, cause |-> None]
        ELSE [next |-> "return", retry |-> r, slept |-> 0, cause |-> None]

\* A session that follows redirects without end.
too_many_redirects_never(n) == FALSE

\* SessionRedirectMixin.resolve_redirects:
\* `if len(resp.history) >= self.max_redirects: raise TooManyRedirects`
too_many_redirects(n) == n >= DEFAULT_REDIRECT_LIMIT

\* SessionRedirectMixin.rebuild_method
rebuild_method(method, status) ==
    IF status = 303 /\ method # "HEAD" THEN "GET"
    ELSE IF status = 302 /\ method # "HEAD" THEN "GET"
    ELSE IF status = 301 /\ method = "POST" THEN "GET"
    ELSE method

----------------------------------------------------------------------------
(* MlflowHostCreds.                                                        *)

Hosts == {None, "", "http://h", "http://h/"}
Usernames == {None, "u"}
Passwords == {None, "p", "pw"}
Tokens == {None, "t"}
ClientCertPaths == {None, "/c.pem"}
ServerCertPaths == {None, "", "/x"}

CtorArgs(host, username, password, token, ignore_tls_verification, client_cert_path, server_cert_path) ==
    [host |-> host, username |-> username, password |-> password, token |-> token,
     ignore_tls_verification |-> ignore_tls_verification,
     client_cert_path |-> client_cert_path, server_cert_path |-> server_cert_path]

NoArgs == CtorArgs(None, None, None, None, FALSE, None, None)
NoCreds == [state |-> "none", error_code |-> None, msg |-> None, self |-> NoArgs]

\* raise MlflowException(message=..., error_code=INVALID_PARAMETER_VALUE)
InvalidParameter(msg) ==
    [state |-> "raised", error_code |-> "INVALID_PARAMETER_VALUE", msg |-> msg,
     self |-> NoArgs]

\* `host is None`
host_is_none(host) == host = None

\* `not host`: None and the empty string are false.
host_missing(host) == host = None \/ host = ""

\* `ignore_tls_verification and server_cert_path`
tls_conflict_truthy(ignore_tls_verification, server_cert_path) ==
    ignore_tls_verification /\ server_cert_path # None /\ server_cert_path # ""

\* `ignore_tls_verification and (server_cert_path is not None)`
tls_conflict(ignore_tls_verification, server_cert_path) ==
    ignore_tls_verification /\ server_cert_path # None

\* MlflowHostCreds.__init__
MlflowHostCreds(host, username, password, token, ignore_tls_verification, client_cert_path, server_cert_path) ==
    LET args == CtorArgs(host, username, password, token, ignore_tls_verification,
                         client_cert_path, server_cert_path)
    IN  /\ ctor_args' = args
        /\ creds' =
             IF host_missing(host)
             THEN InvalidParameter("host is a required parameter")
             ELSE IF tls_conflict(ignore_tls_verification, server_cert_path)
             THEN InvalidParameter("server_cert_path must not be set")
             ELSE [state |-> "constructed", error_code |-> None, msg |-> None,
                   self |-> args]
        /\ UNCHANGED <<pc, call, retry, hops, attempts, lastSleep, seen, resp, result>>
        /\ UNCHANGED <<requestVars, cloudVars, apiVars, concVars>>

----------------------------------------------------------------------------
(* http_request and the entry points built on it.                          *)

\* raise MlflowException("API request to %s failed with exception %s" % (url, e))
ApiRequestFailed(cause) ==
    Raise("MlflowException", "INTERNAL_ERROR", "API request failed with exception",
          cause, 0, None)

\* The asserts of _get_http_response_with_retries.
retry_arguments_ok(max_retries, backoff_factor) ==
    /\ 0 <= max_retries /\ max_retries < MaxRetriesLimit
    /\ 0 <= backoff_factor /\ backoff_factor < BackoffFactorLimit

\* call_endpoint, from the value http_request gave it on: verify, then
\* json.loads(response.text) and parse_dict into response_proto.
call_endpoint_tail(response, endpoint) ==
    LET verified == verify_rest_response(response, endpoint)
    IN  IF verified.kind = "raise" THEN verified
        ELSE IF ~JsonLoads(response.text).ok
        THEN Raise("JSONDecodeError", None, "json.loads", None, response.status,
                   response.text)
        ELSE ReturnProto(response)

\* What the entry point hands to its caller once http_request has returned
\* `response`.
entry_return(entry, response, endpoint) ==
    IF entry = "http_request" THEN ReturnResponse(response)
    ELSE IF entry = "http_request_safe" THEN verify_rest_response(response, endpoint)
    ELSE call_endpoint_tail(response, endpoint)

\* The class of one answer of the server, for the call c.
answer_class(c, o) ==
    IF o.kind # "response" THEN o.kind
    ELSE IF o.status = 200 THEN "ok"
    ELSE IF o.status \in c.retry_codes THEN "forcelist"
    ELSE IF is_redirect(o) THEN "redirect"
    ELSE IF o.retry_after > 0 THEN "retry_after"
    ELSE "other"

\* The start of a logical call: http_request builds the url and the headers,
\* and _get_http_response_with_retries checks its arguments before the
\* first attempt.
Begin(entry, method, max_retries, backoff_factor, retry_codes, endpoint) ==
    /\ pc = "idle"
    /\ call' = [entry |-> entry, method |-> method, req_method |-> method,
                max_retries |-> max_retries, backoff_factor |-> backoff_factor,
                retry_codes |-> retry_codes, endpoint |-> endpoint]
    /\ IF retry_arguments_ok(max_retries, backoff_factor)
       THEN /\ pc' = "inflight"
            /\ retry' = RetryNew(max_retries)
            /\ result' = Pending
       ELSE /\ pc' = "done"
            /\ retry' = NoRetry
            /\ result' = ApiRequestFailed("AssertionError")
    /\ UNCHANGED <<ctor_args, creds, hops, attempts, lastSleep, seen, resp>>
    /\ UNCHANGED <<requestVars, cloudVars, apiVars, concVars>>

\* http_request(host_creds, endpoint, max_retries, backoff_factor, retry_codes,
\*              method=...)
http_request(method, max_retries, backoff_factor, retry_codes, endpoint) ==
    Begin("http_request", method, max_retries, backoff_factor, retry_codes, endpoint)

\* http_request_safe(host_creds, endpoint, **kwargs)
http_request_safe(method, max_retries, backoff_factor, retry_codes, endpoint) ==
    Begin("http_request_safe", method, max_retries, backoff_factor, retry_codes,
          endpoint)

\* call_endpoint(host_creds, endpoint, method, json_body, response_proto):
\* http_request with its default retry arguments.
call_endpoint(method, endpoint) ==
    Begin("call_endpoint", method, DefaultMaxRetries, DefaultBackoffFactor,
          DefaultRetryCodes, endpoint)

\* One HTTP attempt of the call in flight: the server answers with o (and,
\* for a response, the body text), and the client runs on to its next attempt
\* or to the end of the entry point.
HttpAttempt(o, text) ==
    /\ pc = "inflight"
    /\ attempts' = attempts + 1
    /\ seen' = seen \cup {answer_class(call, o)}
                  \cup (IF o.retry_after > 0 THEN {"Retry-After"} ELSE {})
    /\ LET step == urlopen(retry, call, o)
           response == [status |-> o.status, text |-> text]
       IN  IF step.next = "retry"
           THEN /\ pc' = "inflight"
                /\ retry' = step.retry
                /\ lastSleep' = step.slept
                /\ UNCHANGED <<call, hops, resp, result>>
           ELSE IF step.next = "raise"
           THEN /\ pc' = "done"
                /\ result' = ApiRequestFailed(step.cause)
                /\ UNCHANGED <<call, retry, hops, lastSleep, resp>>
           ELSE IF is_redirect(o)
           \* SessionRedirectMixin.resolve_redirects
           THEN IF too_many_redirects(hops)
                THEN /\ pc' = "done"
                     /\ result' = ApiRequestFailed("TooManyRedirects")
                     /\ UNCHANGED <<call, retry, hops, lastSleep, resp>>
                ELSE /\ pc' = "inflight"
                     /\ hops' = hops + 1
                     /\ call' = [call EXCEPT
                                   !.req_method = rebuild_method(@, o.status)]
                     /\ retry' = RetryNew(call.max_retries)
                     /\ lastSleep' = 0
                     /\ UNCHANGED <<resp, result>>
           ELSE /\ pc' = "done"
                /\ resp' = response
                /\ result' = entry_return(call.entry, response, call.endpoint)
                /\ UNCHANGED <<call, retry, hops, lastSleep>>
    /\ UNCHANGED <<ctor_args, creds, requestVars, cloudVars, apiVars, concVars>>

\* An attempt against a server that serves at most MaxRedirectsServed
\* redirects within one logical call.
Attempt(o, text) ==
    /\ is_redirect(o) => hops < MaxRedirectsServed
    /\ HttpAttempt(o, text)

\* verify_rest_response(response, endpoint), called on a response of the
\* caller's own.
verify(status, text, endpoint) ==
    /\ pc = "idle"
    /\ pc' = "done"
    /\ call' = [NoCall EXCEPT !.entry = "verify_rest_response",
                              !.endpoint = endpoint]
    /\ resp' = [status |-> status, text |-> text]
    /\ result' = verify_rest_response([status |-> status, text |-> text], endpoint)
    /\ UNCHANGED <<ctor_args, creds, retry, hops, attempts, lastSleep, seen>>
    /\ UNCHANGED <<requestVars, cloudVars, apiVars, concVars>>

----------------------------------------------------------------------------
(* The request http_request builds: its headers and its keywords.          *)

\* The characters of the user names and passwords of the model.
Chars(s) ==
    IF s = "u" THEN <<"u">>
    ELSE IF s = "p" THEN <<"p">>
    ELSE IF s = "pw" THEN <<"p", "w">>
    ELSE <<>>

\* The code point of a character (all of them ASCII: one byte in UTF-8).
Ord(c) ==
    IF c = "u" THEN 117
    ELSE IF c = "p" THEN 112
    ELSE IF c = "w" THEN 119
    ELSE 58

\* ("%s:%s" % (username, password)).encode("utf-8"), as a sequence of bytes
basic_auth_str(username, password) ==
    LET chars == Chars(username) \o <<":">> \o Chars(password)
    IN  [i \in 1 .. Len(chars) |-> Ord(chars[i])]

\* The base64 alphabet of RFC 4648.
B64Alphabet ==
    <<"A", "B", "C", "D", "E", "F", "G", "H", "I", "J", "K", "L", "M", "N", "O", "P",
      "Q", "R", "S", "T", "U", "V", "W", "X", "Y", "Z", "a", "b", "c", "d", "e", "f",
      "g", "h", "i", "j", "k", "l", "m", "n", "o", "p", "q", "r", "s", "t", "u", "v",
      "w", "x", "y", "z", "0", "1", "2", "3", "4", "5", "6", "7", "8", "9", "+", "/">>

\* The base64 digit of the 6-bit group number k (0 the highest) of the 24-bit
\* group n.
B64Digit(n, k) == B64Alphabet[((n \div (64 ^ (3 - k))) % 64) + 1]

RECURSIVE standard_b64encode(_)
\* base64.standard_b64encode(bytes).decode("utf-8"): three bytes make four
\* digits, and a last group of one or two bytes is padded with "=".
standard_b64encode(bytes) ==
    IF Len(bytes) = 0 THEN ""
    ELSE IF Len(bytes) = 1
    THEN LET n == bytes[1] * 65536
         IN  B64Digit(n, 0) \o B64Digit(n, 1) \o "=="
    ELSE IF Len(bytes) = 2
    THEN LET n == bytes[1] * 65536 + bytes[2] * 256
         IN  B64Digit(n, 0) \o B64Digit(n, 1) \o B64Digit(n, 2) \o "="
    ELSE LET n == bytes[1] * 65536 + bytes[2] * 256 + bytes[3]
         IN  B64Digit(n, 0) \o B64Digit(n, 1) \o B64Digit(n, 2) \o B64Digit(n, 3)
             \o standard_b64encode(SubSeq(bytes, 4, Len(bytes)))

\* The truth value Python gives a string or None.
truthy(v) == v # None /\ v # ""

\* Basic authentication as soon as one of the two is given.
use_basic_either(username, password) == truthy(username) \/ truthy(password)

\* `host_creds.username and host_creds.password`
use_basic(username, password) == truthy(username) /\ truthy(password)

\* auth_str of http_request: Basic is tried first, the token only after it.
auth_str(host_creds) ==
    IF use_basic(host_creds.username, host_creds.password)
    THEN "Basic " \o standard_b64encode(basic_auth_str(host_creds.username,
                                                       host_creds.password))
    ELSE IF truthy(host_creds.token) THEN "Bearer " \o host_creds.token
    ELSE None

\* {**a, **b}: the keys of both, b's value where both have the key.
dict_merge(a, b) ==
    [k \in DOMAIN a \cup DOMAIN b |-> IF k \in DOMAIN b THEN b[k] ELSE a[k]]

EmptyDict == [k \in {} |-> None]
\* _DEFAULT_HEADERS = {"User-Agent": "mlflow-python-client/%s" % __version__}
DEFAULT_HEADERS == [k \in {"User-Agent"} |-> "mlflow-python-client"]
\* What resolve_request_headers() returns (the registered providers are not
\* part of this module): nothing, a user agent, an Authorization header.
ExtraHeaders ==
    {EmptyDict,
     [k \in {"User-Agent"} |-> "ext-agent"],
     [k \in {"Authorization"} |-> "ext-auth"]}

\* Headers in which the extra headers are applied after the Authorization
\* header of the credentials.
request_headers_provider_last(host_creds, extra) ==
    LET auth == auth_str(host_creds)
        headers == IF auth # None
                   THEN dict_merge(DEFAULT_HEADERS, [k \in {"Authorization"} |-> auth])
                   ELSE DEFAULT_HEADERS
    IN  dict_merge(headers, extra)

\* The headers http_request sends for host_creds when resolve_request_headers()
\* gives extra.
request_headers(host_creds, extra) ==
    LET headers == dict_merge(DEFAULT_HEADERS, extra)
        auth == auth_str(host_creds)
    IN  IF auth # None
        THEN dict_merge(headers, [k \in {"Authorization"} |-> auth])
        ELSE headers

\* A keyword of the call of requests: whether it is passed, and its value
\* (a string as the caller gave it, or the value json.loads made of it).
Kw(passed, decoded, value) ==
    [passed |-> passed, decoded |-> decoded, value |-> value]
NotPassed == Kw(FALSE, FALSE, None)

NoRequest ==
    [entry |-> None, method |-> None, json_body |-> None, extra |-> EmptyDict,
     headers |-> EmptyDict, params |-> NotPassed, json |-> NotPassed,
     raised |-> None]

\* The verbs and the payloads call_endpoint is called with.
RequestMethods == {"GET", "POST", "DELETE"}
JsonBodies == {None, "", BODY_OBJ, BODY_ERR, BODY_TEXT}

\* The request http_request(host_creds, endpoint, method=method, **kwargs)
\* hands to requests, kwargs being params and json.
http_request_built(entry, method, json_body, params, json, extra) ==
    /\ creds.state = "constructed"
    /\ request' = [entry |-> entry, method |-> method, json_body |-> json_body,
                   extra |-> extra,
                   headers |-> request_headers(creds.self, extra),
                   params |-> params, json |-> json, raised |-> None]
    /\ UNCHANGED <<ctor_args, creds, pc, call, retry, hops, attempts, lastSleep,
                   seen, resp, result, cloudVars, apiVars, concVars>>

\* http_request called without params and without json.
http_request_plain(method, extra) ==
    http_request_built("http_request", method, None, NotPassed, NotPassed, extra)

\* Every verb carries the payload as a JSON body.
payload_keyword_json(method) == "json"

\* call_endpoint: `if method == "GET"` passes params=json_body, every other
\* verb json=json_body.
payload_keyword(method) == IF method = "GET" THEN "params" ELSE "json"

\* call_endpoint up to its call of http_request: a payload that is true is
\* decoded with json.loads (which raises on a text that is no JSON), then
\* sent under the keyword of the verb.
call_endpoint_built(method, json_body, extra) ==
    IF truthy(json_body) /\ ~JsonLoads(json_body).ok
    THEN /\ creds.state = "constructed"
         /\ request' = [NoRequest EXCEPT !.entry = "call_endpoint",
                                         !.method = method,
                                         !.json_body = json_body,
                                         !.raised = "JSONDecodeError"]
         /\ UNCHANGED <<ctor_args, creds, pc, call, retry, hops, attempts,
                        lastSleep, seen, resp, result, cloudVars, apiVars, concVars>>
    ELSE LET payload == Kw(TRUE, truthy(json_body), json_body)
         IN  IF payload_keyword(method) = "params"
             THEN http_request_built("call_endpoint", method, json_body, payload,
                                     NotPassed, extra)
             ELSE http_request_built("call_endpoint", method, json_body, NotPassed,
                                     payload, extra)

----------------------------------------------------------------------------
(* cloud_storage_http_request.                                             *)

\* _TRANSIENT_FAILURE_RESPONSE_CODES
TRANSIENT_FAILURE_RESPONSE_CODES == {408, 429, 500, 502, 503, 504}

\* The verbs the function is called with, and str.lower() on them.
CloudMethods == {"GET", "Put", "POST"}
lower(method) ==
    IF method = "GET" THEN "get"
    ELSE IF method = "Put" THEN "put"
    ELSE "post"
\* The verb requests puts on the wire for http.put / http.get.
session_verb(method) == IF lower(method) = "put" THEN "PUT" ELSE "GET"

\* The keyword arguments of the call: none, or retry_attempts.
CloudKwargs ==
    {EmptyDict} \cup {[k \in {"retry_attempts"} |-> n] : n \in {0, 1, DefaultRetryAttempts + 1}}

\* kwargs.get("retry_attempts", 5): the keyword stays in kwargs.
kwargs_get_retry_attempts(kwargs) ==
    IF "retry_attempts" \in DOMAIN kwargs THEN kwargs["retry_attempts"]
    ELSE DefaultRetryAttempts

\* What the server does with one attempt of a cloud storage transfer.
CloudOutcomes ==
    {ConnectFailure, ReadFailure,
     Resp(200, 0, FALSE), Resp(404, 0, FALSE), Resp(413, RetryAfterSecs, FALSE),
     Resp(500, 0, FALSE), Resp(503, RetryAfterSecs, FALSE),
     Resp(302, 0, TRUE), Resp(307, 0, TRUE)}

NoCloud ==
    [method |-> None, kwargs |-> EmptyDict, req_method |-> None,
     retry_attempts |-> 0, block |-> None]
\* connect, read, status: answers of that class so far; retry_after: the
\* Retry-After header of the answer the latest retry followed (0: none).
NoTally == [connect |-> 0, read |-> 0, status |-> 0, retry_after |-> 0]

\* Retry(total=None, connect=0, read=1, redirect=3, status=retry_attempts,
\*       status_forcelist=_TRANSIENT_FAILURE_RESPONSE_CODES, backoff_factor=1)
CloudRetry(retry_attempts) ==
    [total |-> None, connect |-> CloudConnectRetries, read |-> CloudReadRetries,
     redirect |-> CloudRedirectRetries, status |-> retry_attempts, history |-> 0]

\* Retry.is_retry for this Retry: the verbs PUT and GET are both retryable, a
\* status of the forcelist is retried, and with total=None the Retry-After
\* clause (`self.total and ...`) is never true.
cloud_is_retry(method, o) ==
    is_method_retryable(method) /\ o.status \in TRANSIENT_FAILURE_RESPONSE_CODES

\* Retry.is_exhausted() for this Retry: total=None is left out of the counters.
cloud_is_exhausted(r) ==
    \E c \in {r.connect, r.read, r.redirect, r.status} : c < 0

\* Retry.increment for this Retry: total stays None, the failure costs one of
\* its own class.
cloud_increment(r, o) ==
    [total |-> None,
     connect |-> IF o.kind = "connect" THEN r.connect - 1 ELSE r.connect,
     read |-> IF o.kind = "read" THEN r.read - 1 ELSE r.read,
     redirect |-> r.redirect,
     status |-> IF o.kind = "response" THEN r.status - 1 ELSE r.status,
     history |-> r.history + 1]

\* One pass of HTTPConnectionPool.urlopen(..., redirect=False, retries=r) of
\* the adapter of the cloud storage session over the server's answer o.
cloud_urlopen(r, method, o) ==
    LET inc == cloud_increment(r, o)
        again == [next |-> "retry", retry |-> inc,
                  slept |-> sleep(inc, CloudBackoffFactor, o), cause |-> None]
        raise(cause) == [next |-> "raise", retry |-> r, slept |-> 0, cause |-> cause]
    IN  IF o.kind = "connect"
        THEN IF cloud_is_exhausted(inc) THEN raise("ConnectionError(MaxRetryError)")
             ELSE again
        ELSE IF o.kind = "read"
        THEN IF ~is_method_retryable(method) THEN raise("ConnectionError(read)")
             ELSE IF cloud_is_exhausted(inc) THEN raise("ConnectionError(MaxRetryError)")
             ELSE again
        ELSE IF cloud_is_retry(method, o)
        THEN IF ~cloud_is_exhausted(inc) THEN again
             ELSE IF raise_on_status THEN raise("RetryError(MaxRetryError)")
             ELSE [next |-> "return", retry |-> r, slept |-> 0, cause |-> None]
        ELSE [next |-> "return", retry |-> r, slept |-> 0, cause |-> None]

\* Only the upper-case verbs are taken.
legal_method_exact(method) == method \in {"PUT", "GET"}

\* `method.lower() == "put"` / `method.lower() == "get"`
legal_method(method) == lower(method) \in {"put", "get"}

\* cloud_storage_http_request(method, *args, **kwargs) up to its first HTTP
\* attempt: the Retry and the session are made, then http.put / http.get is
\* called with kwargs as they came (requests.Session.request takes no
\* retry_attempts keyword: TypeError), or ValueError is raised for any other
\* verb; an exception leaves the `with requests.Session()` block, which
\* closes the session.
cloud_storage_http_request(method, kwargs) ==
    /\ pc = "idle"
    /\ cloud' = [method |-> method, kwargs |-> kwargs,
                 req_method |-> session_verb(method),
                 retry_attempts |-> kwargs_get_retry_attempts(kwargs),
                 block |-> None]
    /\ IF ~legal_method(method)
       THEN /\ pc' = "done"
            /\ session' = "closed"
            /\ result' = Raise("ValueError", None, "Illegal http method", None, 0, None)
            /\ UNCHANGED retry
       ELSE IF "retry_attempts" \in DOMAIN kwargs
       THEN /\ pc' = "done"
            /\ session' = "closed"
            /\ result' = Raise("TypeError", None, "unexpected keyword argument",
                               None, 0, None)
            /\ UNCHANGED retry
       ELSE /\ pc' = "inflight"
            /\ session' = "open"
            /\ retry' = CloudRetry(kwargs_get_retry_attempts(kwargs))
            /\ result' = Pending
    /\ UNCHANGED <<ctor_args, creds, call, hops, attempts, lastSleep, seen, resp,
                   request, body, tally, apiVars, concVars>>

\* One HTTP attempt of the transfer in flight: the server answers with o, and
\* the client runs on to its next attempt, to the exception that leaves the
\* function, or to the `yield` of the response.
CloudAttempt(o) ==
    /\ pc = "inflight"
    /\ cloud.method # None
    /\ is_redirect(o) => hops < MaxCloudRedirects
    /\ attempts' = attempts + 1
    /\ tally' = [connect |-> IF o.kind = "connect" THEN tally.connect + 1
                              ELSE tally.connect,
                 read |-> IF o.kind = "read" THEN tally.read + 1 ELSE tally.read,
                 status |-> IF o.kind = "response"
                               /\ o.status \in TRANSIENT_FAILURE_RESPONSE_CODES
                            THEN tally.status + 1 ELSE tally.status,
                 retry_after |->
                     IF cloud_urlopen(retry, cloud.req_method, o).next = "retry"
                     THEN o.retry_after ELSE 0]
    /\ LET step == cloud_urlopen(retry, cloud.req_method, o)
           response == [status |-> o.status, text |-> BODY_TEXT]
       IN  IF step.next = "retry"
           THEN /\ pc' = "inflight"
                /\ retry' = step.retry
                /\ lastSleep' = step.slept
                /\ UNCHANGED <<cloud, hops, resp, result, session, body>>
           ELSE IF step.next = "raise"
           THEN /\ pc' = "done"
                /\ session' = "closed"
                /\ result' = Raise(step.cause, None, None, None, 0, None)
                /\ UNCHANGED <<cloud, retry, hops, lastSleep, resp, body>>
           ELSE IF is_redirect(o)
           \* SessionRedirectMixin.resolve_redirects
           THEN IF too_many_redirects(hops)
                THEN /\ pc' = "done"
                     /\ session' = "closed"
                     /\ result' = Raise("TooManyRedirects", None, None, None, 0, None)
                     /\ UNCHANGED <<cloud, retry, hops, lastSleep, resp, body>>
                ELSE /\ pc' = "inflight"
                     /\ hops' = hops + 1
                     /\ cloud' = [cloud EXCEPT
                                    !.req_method = rebuild_method(@, o.status)]
                     /\ retry' = CloudRetry(cloud.retry_attempts)
                     /\ lastSleep' = 0
                     /\ UNCHANGED <<resp, result, session, body>>
           ELSE /\ pc' = "yielded"
                /\ resp' = response
                /\ result' = ReturnResponse(response)
                /\ body' = "open"
                /\ UNCHANGED <<cloud, retry, hops, lastSleep, session>>
    /\ UNCHANGED <<ctor_args, creds, call, seen, request, apiVars, concVars>>

\* A context manager that closes nothing when the block raises.
exit_block_leaky(raised) ==
    IF raised THEN [body |-> "open", session |-> "open"]
    ELSE [body |-> "closed", session |-> "closed"]

\* Leaving `with response as r: yield r` inside `with requests.Session()`:
\* the generator is resumed, or the caller's exception is thrown into it at
\* the yield, and both `with` statements run their exits either way.
exit_block(raised) == [body |-> "closed", session |-> "closed"]

\* The caller's block under `with cloud_storage_http_request(...) as r` ends.
BlockExit(raised) ==
    /\ pc = "yielded"
    /\ pc' = "done"
    /\ cloud' = [cloud EXCEPT !.block = IF raised THEN "raised" ELSE "completed"]
    /\ body' = exit_block(raised).body
    /\ session' = exit_block(raised).session
    /\ result' = IF raised
                 THEN Raise("CallerError", None, "raised in the block", None,
                            resp.status, resp.text)
                 ELSE result
    /\ UNCHANGED <<ctor_args, creds, call, retry, hops, attempts, lastSleep, seen,
                   resp, request, tally, apiVars, concVars>>

\* The block runs to its end.
block_completes == BlockExit(FALSE)
\* The block raises while it consumes the body.
block_raises == BlockExit(TRUE)

----------------------------------------------------------------------------
(* extract_api_info_for_service.                                           *)

\* The request classes of the methods of a service, in the order of
\* service.DESCRIPTOR.methods: service().GetRequestClass(service_method)
\* (every method of a service has a request class of its own).
RequestClasses == <<"CreateRun", "GetRun", "SearchRuns", "ListArtifacts">>

\* path_prefix
PathPrefixes == {"/api/2.0", "/ajax-api/2.0", "/preview"}

\* The endpoint bindings a method declares in its databricks_pb2.rpc option:
\* at least one, each a path and an HTTP method.
BindingPool ==
    {[path |-> "/runs/get", method |-> "GET"],
     [path |-> "/runs/create", method |-> "POST"]}
BindingLists == UNION {[1 .. n -> BindingPool] : n \in 1 .. MaxBindings}

\* A service: the endpoint bindings of each of its methods, in order.
Services == UNION {[1 .. n -> BindingLists] : n \in 0 .. MaxServiceMethods}

NoApi == [called |-> FALSE, service |-> <<>>, path_prefix |-> None, res |-> EmptyDict]

\* _get_path(path_prefix, endpoint_path)
get_path(path_prefix, endpoint_path) == path_prefix \o endpoint_path

\* The binding declared last.
last_binding(endpoints) == endpoints[Len(endpoints)]

\* endpoint = endpoints[0]
first_binding(endpoints) == endpoints[1]

RECURSIVE api_info_loop(_, _, _, _)
\* The loop of extract_api_info_for_service from the method number i on, res
\* being the dictionary built so far:
\*   res[request class] = (endpoint_path, endpoint.method)
api_info_loop(service, path_prefix, i, res) ==
    IF i > Len(service) THEN res
    ELSE LET endpoint == first_binding(service[i])
             endpoint_path == get_path(path_prefix, endpoint.path)
             entry == [path |-> endpoint_path, method |-> endpoint.method]
         IN  api_info_loop(service, path_prefix, i + 1,
                           dict_merge(res, [k \in {RequestClasses[i]} |-> entry]))

\* extract_api_info_for_service(service, path_prefix)
extract_api_info_for_service(service, path_prefix) ==
    /\ ~api.called
    /\ api' = [called |-> TRUE, service |-> service, path_prefix |-> path_prefix,
               res |-> api_info_loop(service, path_prefix, 1, EmptyDict)]
    /\ UNCHANGED <<ctor_args, creds, pc, call, retry, hops, attempts, lastSleep,
                   seen, resp, result, requestVars, cloudVars, concVars>>

----------------------------------------------------------------------------
(* Logical calls of http_request running in concurrent threads.            *)

Threads == {1, 2}
ThreadMaxRetries == {0, 1}
\* What the server does with one attempt of a thread's call.
ThreadOutcomes ==
    {ConnectFailure, ReadFailure,
     Resp(200, 0, FALSE), Resp(404, 0, FALSE), Resp(500, 0, FALSE)}

\* The locals of one call: its position, the credentials object it was
\* given, its max_retries, the server's answers to its attempts so far, the
\* number of its attempts and what it returned or raised.
NoThread ==
    [pc |-> "idle", host_creds |-> NoArgs, max_retries |-> 0, answers |-> <<>>,
     attempts |-> 0, result |-> Pending]
NoThreads == [t \in Threads |-> NoThread]
NoRetries == [t \in Threads |-> NoRetry]

\* The arguments of a thread's call: http_request(host_creds, endpoint,
\* max_retries=max_retries, backoff_factor=0, method="GET").
ThreadCall(max_retries) ==
    [NoCall EXCEPT !.entry = "http_request", !.method = "GET", !.req_method = "GET",
                   !.max_retries = max_retries, !.retry_codes = DefaultRetryCodes,
                   !.endpoint = EP_FILES]

\* One Retry object for all the calls of the process.
retry_owner_shared(t) == 1

\* `retry = Retry(...)`, `adapter = HTTPAdapter(max_retries=retry)` and
\* `with requests.Session() as http` are locals of
\* _get_http_response_with_retries: every call holds its own.
retry_owner(t) == t

\* Thread t calls http_request with the credentials object of the process.
ThreadBegin(t, max_retries) ==
    /\ creds.state = "constructed"
    /\ threads[t].pc = "idle"
    /\ threads' = [threads EXCEPT ![t] =
                     [pc |-> "inflight", host_creds |-> creds.self,
                      max_retries |-> max_retries, answers |-> <<>>,
                      attempts |-> 0, result |-> Pending]]
    /\ retries' = [retries EXCEPT ![retry_owner(t)] = RetryNew(max_retries)]
    /\ UNCHANGED <<ctor_args, creds, pc, call, retry, hops, attempts, lastSleep,
                   seen, resp, result, requestVars, cloudVars, apiVars>>

\* One HTTP attempt of the call of thread t, answered with o.
ThreadAttempt(t, o) ==
    /\ threads[t].pc = "inflight"
    /\ LET me == threads[t]
           step == urlopen(retries[retry_owner(t)], ThreadCall(me.max_retries), o)
           tried == [me EXCEPT !.answers = Append(@, o), !.attempts = @ + 1]
       IN  IF step.next = "retry"
           THEN /\ threads' = [threads EXCEPT ![t] = tried]
                /\ retries' = [retries EXCEPT ![retry_owner(t)] = step.retry]
           ELSE IF step.next = "raise"
           THEN /\ threads' = [threads EXCEPT ![t] =
                                 [tried EXCEPT !.pc = "done",
                                               !.result = ApiRequestFailed(step.cause)]]
                /\ UNCHANGED retries
           ELSE /\ threads' = [threads EXCEPT ![t] =
                                 [tried EXCEPT
                                    !.pc = "done",
                                    !.result = ReturnResponse([status |-> o.status,
                                                               text |-> BODY_OBJ])]]
                /\ UNCHANGED retries
    /\ UNCHANGED <<ctor_args, creds, pc, call, retry, hops, attempts, lastSleep,
                   seen, resp, result, requestVars, cloudVars, apiVars>>

RECURSIVE run_alone(_, _, _)
\* What a call with the arguments c and the Retry r comes to when it runs
\* alone against the answers: its position and its result.
run_alone(c, r, answers) ==
    IF answers = <<>> THEN [pc |-> "inflight", result |-> Pending]
    ELSE LET o == Head(answers)
             step == urlopen(r, c, o)
         IN  IF step.next = "retry" THEN run_alone(c, step.retry, Tail(answers))
             ELSE IF step.next = "raise"
             THEN [pc |-> "done", result |-> ApiRequestFailed(step.cause)]
             ELSE [pc |-> "done",
                   result |-> ReturnResponse([status |-> o.status, text |-> BODY_OBJ])]

Init ==
    /\ ctor_args = NoArgs
    /\ creds = NoCreds
    /\ pc = "idle"
    /\ call = NoCall
    /\ retry = NoRetry
    /\ hops = 0
    /\ attempts = 0
    /\ lastSleep = 0
    /\ seen = {}
    /\ resp = NoResp
    /\ result = Pending
    /\ request = NoRequest
    /\ cloud = NoCloud
    /\ session = "none"
    /\ body = "none"
    /\ tally = NoTally
    /\ api = NoApi
    /\ threads = NoThreads
    /\ retries = NoRetries

Next ==
    \/ \E m \in Methods, mr \in MaxRetriesArgs, bf \in BackoffFactorArgs,
          rc \in RetryCodesArgs, ep \in CallEndpoints :
            http_request(m, mr, bf, rc, ep)
    \/ \E m \in Methods, mr \in MaxRetriesArgs, bf \in BackoffFactorArgs,
          rc \in RetryCodesArgs, ep \in CallEndpoints :
            http_request_safe(m, mr, bf, rc, ep)
    \/ \E m \in Methods, ep \in CallEndpoints : call_endpoint(m, ep)
    \/ \E o \in ServerOutcomes, text \in Bodies : Attempt(o, text)
    \/ \E s \in {200, 404, 429}, text \in Bodies, ep \in Endpoints :
            verify(s, text, ep)

Spec == Init /\ [][Next]_vars

\* The construction of host credentials, on its own.
NextCreds ==
    \E host \in Hosts, username \in Usernames, password \in Passwords,
       token \in Tokens, ignore_tls_verification \in BOOLEAN,
       client_cert_path \in ClientCertPaths, server_cert_path \in ServerCertPaths :
        MlflowHostCreds(host, username, password, token, ignore_tls_verification,
                        client_cert_path, server_cert_path)

SpecCreds == Init /\ [][NextCreds]_vars

\* One request built for one credentials object: the credentials are
\* constructed, then http_request or call_endpoint builds a request for them.
NextRequest ==
    \/ request = NoRequest /\ NextCreds
    \/ \E m \in RequestMethods, extra \in ExtraHeaders : http_request_plain(m, extra)
    \/ \E m \in RequestMethods, json_body \in JsonBodies, extra \in ExtraHeaders :
            call_endpoint_built(m, json_body, extra)

SpecRequest == Init /\ [][NextRequest]_vars

\* Transfers through cloud_storage_http_request.
NextCloud ==
    \/ \E method \in CloudMethods, kwargs \in CloudKwargs :
            cloud_storage_http_request(method, kwargs)
    \/ \E o \in CloudOutcomes : CloudAttempt(o)
    \/ block_completes
    \/ block_raises

SpecCloud == Init /\ [][NextCloud]_vars

\* The endpoint table of one service.
NextApi ==
    \E service \in Services, path_prefix \in PathPrefixes :
        extract_api_info_for_service(service, path_prefix)

SpecApi == Init /\ [][NextApi]_vars

\* Calls of http_request against a server that may redirect without end:
\* every attempt in flight completes (it is answered or it times out).
TermMaxRetries == {0, 1}
TermOutcomes ==
    {ConnectFailure, ReadFailure,
     Resp(200, 0, FALSE), Resp(404, 0, FALSE), Resp(500, 0, FALSE),
     Resp(429, RetryAfterSecs, FALSE), Resp(302, 0, TRUE)}
TermAttempt == \E o \in TermOutcomes : HttpAttempt(o, BODY_OBJ)
NextTerm ==
    \/ \E m \in Methods, mr \in TermMaxRetries :
            http_request(m, mr, 0, DefaultRetryCodes, EP_FILES)
    \/ TermAttempt

SpecTerm == Init /\ [][NextTerm]_vars /\ WF_vars(TermAttempt)

\* Two threads calling http_request with one credentials object, their
\* attempts interleaved in every order.
NextConc ==
    \/ \E token \in Tokens :
          /\ \A t \in Threads : threads[t].pc = "idle"
          /\ MlflowHostCreds("http://h", None, None, token, FALSE, None, None)
    \/ \E t \in Threads, max_retries \in ThreadMaxRetries : ThreadBegin(t, max_retries)
    \/ \E t \in Threads, o \in ThreadOutcomes : ThreadAttempt(t, o)

SpecConc == Init /\ [][NextConc]_vars

----------------------------------------------------------------------------
(* Properties.                                                             *)

\* The logical call went through the retrying transport.
ViaTransport == call.entry \in EntryPoints

\* The call's retry arguments are inside their bounds.
ArgsInBounds ==
    /\ 0 <= call.max_retries /\ call.max_retries < MaxRetriesLimit
    /\ 0 <= call.backoff_factor /\ call.backoff_factor < BackoffFactorLimit

\* MlflowException("API request to <url> failed with exception ..."): the
\* transport error.
IsTransportError(x) ==
    /\ x.kind = "raise" /\ x.exc = "MlflowException"
    /\ x.msg = "API request failed with exception"

\* MlflowException(..., error_code=INVALID_PARAMETER_VALUE): the
\* configuration error.
IsConfigurationError(x) ==
    /\ x.kind = "raise" /\ x.exc = "MlflowException"
    /\ x.error_code = "INVALID_PARAMETER_VALUE"

IsSuccess(x) == x.kind \in {"response", "proto"} /\ x.status = 200

\* C1: when the server answers a call of http_request with a retryable status
\* k times and then with 200, the call returns the 200 if max_retries >= k
\* and no success if max_retries < k, after min(k, max_retries) + 1 attempts.
\* In a finished call whose answers were all retryable statuses followed by
\* at most one 200: if the 200 was reached it is returned and at most
\* max_retries retryable answers preceded it; if it was not, the call made
\* max_retries + 1 attempts and returned no success.
C1_RetryThenSuccess ==
    (pc = "done" /\ call.entry = "http_request" /\ ArgsInBounds
     /\ seen # {} /\ seen \subseteq {"forcelist", "ok"})
    => IF "ok" \in seen
       THEN IsSuccess(result) /\ attempts - 1 <= call.max_retries
       ELSE attempts = call.max_retries + 1 /\ ~IsSuccess(result)

\* C2 as stated: when every attempt up to the exhausted retry budget ended
\* with a retryable status, the call does not fail with a transport error:
\* the last response is returned to the caller.
C2_LastResponseReturned ==
    (pc = "done" /\ call.entry = "http_request" /\ ArgsInBounds
     /\ seen = {"forcelist"} /\ attempts = call.max_retries + 1)
    => (result.kind = "response" /\ result.status \in call.retry_codes
        /\ ~IsTransportError(result))

\* C2, amended: when every attempt ended with a retryable status, a call
\* whose method urllib3 retries (GET here) makes max_retries + 1 attempts and
\* then raises the transport error wrapping requests' RetryError, and no
\* response reaches the caller or the verifier; a call whose method urllib3
\* does not retry (POST here) ends after its first attempt with that
\* response handed on.
C2_RetryErrorRaised ==
    (pc = "done" /\ ViaTransport /\ ArgsInBounds
     /\ "forcelist" \in seen /\ seen \subseteq {"forcelist", "Retry-After"})
    => IF call.method = "GET"
       THEN /\ attempts = call.max_retries + 1
            /\ IsTransportError(result)
            /\ result.cause = "RetryError(MaxRetryError)"
            /\ resp = NoResp
       ELSE /\ attempts = 1
            /\ resp.status \in call.retry_codes
            /\ call.entry = "http_request" => result.kind = "response"

C2_Witness ==
    /\ pc = "done" /\ call.entry = "http_request" /\ call.method = "GET"
    /\ seen = {"forcelist"} /\ call.max_retries = 2 /\ attempts = 3
    /\ result.cause = "RetryError(MaxRetryError)"

C4_SingleAttempt ==
    (ViaTransport /\ seen # {}
     /\ seen \subseteq {"other", "redirect", "retry_after", "Retry-After"})
    => attempts = 1

\* C4, amended: a response whose status is neither 200 nor a retryable
\* status, that is no redirect with a Location header and carries no
\* Retry-After header, ends the call at once: it is the response handed on,
\* the call makes no attempt after it (exactly one when it is the first
\* answer), and a verifier error it leads to ends the call.
C4_NoRetryOfOtherStatus ==
    ViaTransport
    => /\ "other" \in seen
          => /\ pc = "done"
             /\ resp # NoResp
             /\ resp.status \notin ({200} \cup call.retry_codes)
             /\ call.entry # "http_request" => result.kind = "raise"
       /\ seen = {"other"} => attempts = 1

C4_Witness ==
    /\ pc = "done" /\ call.entry = "call_endpoint" /\ seen = {"other"}
    /\ resp.status = 404 /\ result.exc = "RestException" /\ attempts = 1

\* C5: a call whose max_retries is outside [0, 10) or whose backoff_factor is
\* outside [0, 120) fails with a configuration error, which is no transport
\* error, before any attempt; a call inside the bounds is not rejected.
C5_BoundsAreConfigurationErrors ==
    ViaTransport
    => IF ArgsInBounds
       THEN ~(pc = "done" /\ attempts = 0)
       ELSE /\ pc = "done" /\ attempts = 0
            /\ IsConfigurationError(result)
            /\ ~IsTransportError(result)

\* C6: the delay slept between attempt i and attempt i + 1 of a call is
\* backoff_factor * 2^(i - 1) seconds (no Retry-After header involved, no
\* redirect followed).
C6_ExponentialBackoff ==
    (ViaTransport /\ pc = "inflight" /\ hops = 0 /\ attempts >= 1
     /\ "Retry-After" \notin seen)
    => lastSleep = call.backoff_factor * 2 ^ (attempts - 1)

\* The response went through verify_rest_response.
Verified ==
    /\ pc = "done" /\ resp # NoResp
    /\ call.entry \in {"verify_rest_response", "http_request_safe", "call_endpoint"}

\* C7: verify_rest_response on a response whose status is not 200, whatever
\* the endpoint: a body that parses as JSON raises RestException built from
\* it, carrying the body's error_code; any other body raises MlflowException
\* carrying the body text and the status code. The response is never
\* returned.
C7_NonOkRaises ==
    (Verified /\ resp.status # 200)
    => /\ result.kind = "raise"
       /\ result.text = resp.text
       /\ result.status = resp.status
       /\ IF resp.text \in {BODY_ERR, BODY_OBJ}
          THEN /\ result.exc = "RestException"
               /\ resp.text = BODY_ERR => result.error_code = "RESOURCE_DOES_NOT_EXIST"
          ELSE /\ result.exc = "MlflowException"
               /\ result.msg = "failed with error code != 200"

C7_Witness ==
    /\ Verified /\ call.entry = "verify_rest_response" /\ resp.status = 429
    /\ resp.text = BODY_ERR /\ call.endpoint = EP_FILES
    /\ result.exc = "RestException"
    /\ result.error_code = "RESOURCE_DOES_NOT_EXIST"

\* C8: verify_rest_response on a response whose status is 200: under the
\* /api/2.0 prefix a body that is not JSON raises MlflowException; in every
\* other case the same response is returned unchanged.
C8_OkVerified ==
    (Verified /\ resp.status = 200 /\ call.entry # "call_endpoint")
    => IF call.endpoint \in {EP_RUNS, EP_EXACT} /\ resp.text \in {BODY_TEXT, BODY_EMPTY}
       THEN /\ result.kind = "raise" /\ result.exc = "MlflowException"
            /\ result.msg = "body not in a valid JSON format"
       ELSE /\ result.kind = "response"
            /\ result.status = resp.status /\ result.text = resp.text

C8_Witness ==
    /\ Verified /\ resp.status = 200 /\ resp.text = BODY_TEXT
    /\ call.endpoint = EP_FILES /\ call.entry = "http_request_safe"
    /\ result.kind = "response" /\ result.text = BODY_TEXT

\* C9: MlflowHostCreds with an empty host (None or "") raises MlflowException
\* with INVALID_PARAMETER_VALUE whatever the other arguments, and no
\* credentials object exists.
C9_EmptyHostRejected ==
    (creds.state # "none" /\ ctor_args.host \in {None, ""})
    => /\ creds.state = "raised"
       /\ creds.error_code = "INVALID_PARAMETER_VALUE"
       /\ creds.self = NoArgs

C9_Witness ==
    /\ ctor_args.host = "" /\ ctor_args.token = "t"
    /\ ctor_args.server_cert_path = "/x" /\ creds.state = "raised"

\* C10: no constructed MlflowHostCreds has ignore_tls_verification true and a
\* server_cert_path set; constructing with both raises MlflowException with
\* INVALID_PARAMETER_VALUE.
C10_TlsExclusive ==
    /\ creds.state = "constructed"
       => /\ creds.self = ctor_args
          /\ ~(creds.self.ignore_tls_verification
               /\ creds.self.server_cert_path # None)
    /\ (creds.state # "none" /\ ctor_args.ignore_tls_verification
        /\ ctor_args.server_cert_path # None)
       => /\ creds.state = "raised"
          /\ creds.error_code = "INVALID_PARAMETER_VALUE"

C10_Witness ==
    /\ ctor_args.host = "http://h" /\ ctor_args.ignore_tls_verification
    /\ ctor_args.server_cert_path = "" /\ creds.state = "raised"

\* http_request has built a request for the credentials object.
RequestBuilt == request.entry # None /\ request.raised = None

\* C11: when the credentials carry a token together with a username and a
\* password, the token takes precedence: the request http_request builds
\* carries "Authorization: Bearer <token>", and the username and password
\* are ignored.
C11_TokenTakesPrecedence ==
    (RequestBuilt /\ creds.self.token # None
     /\ creds.self.username # None /\ creds.self.password # None)
    => /\ "Authorization" \in DOMAIN request.headers
       /\ request.headers["Authorization"] = "Bearer t"

\* C12: with no token in the credentials, the request carries
\* "Authorization: Basic base64(username:password)" exactly when both the
\* username and the password are present; when neither or only one of them
\* is, the credentials add no Authorization header: the request has one only
\* if the extra headers brought it, with their value.
C12_BasicWhenBoth ==
    (RequestBuilt /\ creds.self.token = None)
    => IF creds.self.username # None /\ creds.self.password # None
       THEN /\ "Authorization" \in DOMAIN request.headers
            /\ creds.self.password = "p"
               => request.headers["Authorization"] = "Basic dTpw"
            /\ creds.self.password = "pw"
               => request.headers["Authorization"] = "Basic dTpwdw=="
       ELSE /\ "Authorization" \in DOMAIN request.headers
               <=> "Authorization" \in DOMAIN request.extra
            /\ "Authorization" \in DOMAIN request.headers
               => request.headers["Authorization"] = request.extra["Authorization"]

C12_Witness ==
    /\ RequestBuilt /\ creds.self.token = None
    /\ creds.self.username = "u" /\ creds.self.password = "pw"
    /\ "Authorization" \in DOMAIN request.extra
    /\ request.headers["Authorization"] = "Basic dTpwdw=="

\* A transfer through cloud_storage_http_request with a verb it takes.
LegalTransfer == cloud.method \in {"GET", "Put"}

\* C13: cloud_storage_http_request, for every value of retry_attempts
\* (0 included), puts the request on the wire, makes no retry after a
\* connect failure (the failure is raised after that one attempt) and
\* exactly one retry after a read failure (the second read failure of a
\* request is raised).
C13_ConnectAndReadRetries ==
    LegalTransfer
    => /\ pc = "done" => attempts >= 1
       /\ tally.connect >= 1
          => /\ pc = "done" /\ tally.connect = 1 /\ body = "none"
             /\ result.exc = "ConnectionError(MaxRetryError)"
       /\ pc = "inflight" => retry.read >= 0
       /\ (tally.read = 1 /\ pc = "done")
          => result.exc # "ConnectionError(MaxRetryError)" \/ tally.connect = 1

\* C14: with the default configuration the budgets of a transfer are
\* independent and are those of the whole transfer: while it goes on it has
\* followed at most 3 redirects, met at most 1 read failure and at most 5
\* transient statuses, every attempt that was followed by another ended in
\* one of these three, and a transfer inside these budgets that met no
\* connect failure is not given up.
C14_IndependentBudgets ==
    (LegalTransfer /\ cloud.kwargs = EmptyDict)
    => /\ pc = "inflight"
          => /\ hops <= CloudRedirectRetries
             /\ tally.read <= CloudReadRetries
             /\ tally.status <= DefaultRetryAttempts
             /\ attempts = hops + tally.read + tally.status
       /\ (pc # "inflight" /\ hops <= CloudRedirectRetries
           /\ tally.read <= CloudReadRetries
           /\ tally.status <= DefaultRetryAttempts /\ tally.connect = 0)
          => result.kind # "raise" \/ cloud.block = "raised"

\* C15 as stated: the delay before every retry of a transfer is the same
\* 1-second factor, whatever the index of the retry (no Retry-After header
\* involved).
C15_FixedDelay ==
    (cloud.method # None /\ pc = "inflight" /\ retry.history >= 1
     /\ tally.retry_after = 0)
    => lastSleep = CloudBackoffFactor

\* C15, amended: the backoff of a transfer is exponential with factor 1:
\* nothing is slept before the first retry of a request, and 2^(k-1)
\* seconds, at most 120, before its k-th consecutive retry for k >= 2,
\* unless the answer carried a Retry-After header, whose value is slept
\* instead; a followed redirect starts the count again.
C15_ExponentialDelay ==
    (cloud.method # None /\ pc = "inflight")
    => lastSleep =
         IF retry.history = 0 THEN 0
         ELSE IF tally.retry_after > 0 THEN tally.retry_after
         ELSE IF retry.history = 1 THEN 0
         ELSE IF retry.history = 2 THEN 2
         ELSE IF retry.history = 3 THEN 4
         ELSE IF retry.history = 4 THEN 8
         ELSE IF retry.history = 5 THEN 16
         ELSE 32

C15_Witness ==
    /\ cloud.method = "Put" /\ pc = "inflight" /\ hops = 0
    /\ retry.history = 6 /\ tally.status = 5 /\ tally.read = 1
    /\ tally.retry_after = 0 /\ lastSleep = 32

\* C16: when the caller passes retry_attempts = n (5 when nothing is
\* passed), the request is issued and transient statuses are retried up to
\* n times: a transfer that met nothing but transient statuses ends after
\* n + 1 attempts, by the error of the exhausted retries.
C16_RetryAttemptsConfigurable ==
    (LegalTransfer /\ pc = "done" /\ tally.status = attempts)
    => /\ attempts = cloud.retry_attempts + 1
       /\ result.exc = "RetryError(MaxRetryError)"

\* C17: cloud_storage_http_request with a verb that is neither PUT nor GET,
\* whatever the case of its letters, raises ValueError before any network
\* activity: no HTTP request is issued, no response is yielded, and the
\* session is closed; PUT and GET in any case are not rejected so.
C17_IllegalVerbRejected ==
    cloud.method # None
    => IF cloud.method \notin {"GET", "Put"}
       THEN /\ pc = "done" /\ result.kind = "raise" /\ result.exc = "ValueError"
            /\ attempts = 0 /\ resp = NoResp /\ body = "none"
            /\ session = "closed"
       ELSE result.exc # "ValueError"

C17_Witness ==
    /\ cloud.method = "POST" /\ "retry_attempts" \in DOMAIN cloud.kwargs
    /\ result.exc = "ValueError" /\ session = "closed" /\ attempts = 0

\* C18: once the caller's block under cloud_storage_http_request has been
\* left, by running to its end or by an exception raised while it consumes
\* the body, the response and the session are closed; the response is held
\* open only while the block runs; the caller's exception comes out of the
\* `with` statement, and a block that ran to its end raises nothing.
C18_ReleasedOnEveryExit ==
    cloud.method # None
    => /\ pc = "done" => body # "open" /\ session = "closed"
       /\ body = "open" => pc = "yielded" /\ session = "open"
       /\ cloud.block # None => pc = "done" /\ body = "closed"
       /\ cloud.block = "raised"
          => result.kind = "raise" /\ result.exc = "CallerError"
       /\ cloud.block = "completed"
          => result.kind = "response" /\ result.status = resp.status

C18_Witness ==
    /\ cloud.block = "raised" /\ resp.status = 404 /\ hops = 1
    /\ body = "closed" /\ session = "closed" /\ result.exc = "CallerError"

\* C19: call_endpoint passes its payload to http_request as query parameters
\* (params) and passes no JSON body exactly when the verb is GET; for every
\* other verb it passes the payload as JSON body (json) and no query
\* parameters. The payload is the value json.loads makes of json_body when
\* json_body is not empty; an empty json_body (None or "") is passed as it
\* is, undecoded.
C19_PayloadByVerb ==
    (request.entry = "call_endpoint" /\ request.raised = None)
    => LET payload == IF request.method = "GET" THEN request.params
                      ELSE request.json
           other == IF request.method = "GET" THEN request.json
                    ELSE request.params
       IN  /\ payload.passed /\ ~other.passed
           /\ payload.value = request.json_body
           /\ payload.decoded <=> request.json_body \in {BODY_OBJ, BODY_ERR}
           /\ request.json_body # BODY_TEXT

C19_Witness ==
    /\ request.entry = "call_endpoint" /\ request.method = "GET"
    /\ request.json_body = BODY_ERR /\ request.params.passed
    /\ request.params.decoded /\ ~request.json.passed

\* C20: call_endpoint on a response that passes verify_rest_response: a body
\* that is JSON is parsed into the typed response, and a body that is no
\* JSON fails with MlflowException, the error verify_rest_response raises
\* for a malformed body, also on an endpoint outside the /api/2.0 prefix; a
\* response that fails the verification leaves the caller with the
\* verifier's exception.
C20_ParseFailureIsProtocolError ==
    (pc = "done" /\ call.entry = "call_endpoint" /\ resp # NoResp)
    => IF resp.status # 200
       THEN /\ result.kind = "raise"
            /\ result.exc \in {"RestException", "MlflowException"}
       ELSE IF resp.text \in {BODY_ERR, BODY_OBJ}
       THEN result.kind = "proto" /\ result.text = resp.text
       ELSE result.kind = "raise" /\ result.exc = "MlflowException"

\* C21: the table extract_api_info_for_service returns has exactly one entry
\* for every method of the service, under the method's request class, and
\* the entry is (path_prefix + path, verb) of the first endpoint binding the
\* method declares, whatever bindings follow it.
C21_FirstBindingWins ==
    api.called
    => /\ DOMAIN api.res = {RequestClasses[i] : i \in 1 .. Len(api.service)}
       /\ Cardinality(DOMAIN api.res) = Len(api.service)
       /\ \A i \in 1 .. Len(api.service) :
            /\ api.res[RequestClasses[i]].path
                 = api.path_prefix \o api.service[i][1].path
            /\ api.res[RequestClasses[i]].method = api.service[i][1].method

C21_Witness ==
    /\ api.called /\ Len(api.service) = 2 /\ Len(api.service[1]) = 2
    /\ api.service[1][2] = [path |-> "/runs/create", method |-> "POST"]
    /\ api.res["CreateRun"] = [path |-> "/api/2.0/runs/get", method |-> "GET"]
    /\ api.res["GetRun"].method = "POST"

\* C22: in the default transport the retries of all classes (redirects,
\* connect failures, read failures, retryable statuses) together never
\* exceed max_retries: a logical call issues at most max_retries + 1 HTTP
\* attempts.
C22_SharedBudget ==
    (ViaTransport /\ ArgsInBounds) => attempts <= call.max_retries + 1

\* C23: every call of the default transport terminates: whatever the server
\* answers, a call whose attempts each complete ends by returning a response
\* or raising an error, after at most
\* (max_redirects + 1) * (max_retries + 1) HTTP attempts.
C23_Terminates ==
    /\ []((ViaTransport /\ ArgsInBounds)
          => attempts <= (DEFAULT_REDIRECT_LIMIT + 1) * (call.max_retries + 1))
    /\ (pc = "inflight") ~> (pc = "done" /\ result.kind \in {"response", "raise"})

C23_Witness ==
    /\ pc = "done" /\ hops = DEFAULT_REDIRECT_LIMIT
    /\ result.kind = "raise" /\ result.cause = "TooManyRedirects"
    /\ attempts = (DEFAULT_REDIRECT_LIMIT + 1) * (call.max_retries + 1)
    /\ call.max_retries = 1

\* C24: calls running concurrently share no retry state: every call makes at
\* most max_retries + 1 attempts of its own and raises only after exactly
\* that many, whatever the other call does meanwhile; its position and its
\* outcome are those of the same call running alone against the same
\* answers; and the credentials object the calls were given still has the
\* value it was constructed with.
C24_CallsAreIndependent ==
    \A t \in Threads :
        threads[t].pc # "idle"
        => /\ threads[t].attempts = Len(threads[t].answers)
           /\ threads[t].attempts <= threads[t].max_retries + 1
           /\ threads[t].pc = "inflight"
              => threads[t].attempts <= threads[t].max_retries
           /\ threads[t].result.kind = "raise"
              => threads[t].attempts = threads[t].max_retries + 1
           /\ LET alone == run_alone(ThreadCall(threads[t].max_retries),
                                     RetryNew(threads[t].max_retries),
                                     threads[t].answers)
              IN  threads[t].pc = alone.pc /\ threads[t].result = alone.result
           /\ creds.state = "constructed"
           /\ creds.self = ctor_args
           /\ threads[t].host_creds = creds.self

C24_Witness ==
    /\ threads[1].pc = "done" /\ threads[1].max_retries = 1
    /\ threads[1].answers = <<ConnectFailure, ConnectFailure>>
    /\ threads[1].result.cause = "ConnectionError(MaxRetryError)"
    /\ threads[2].pc = "done" /\ threads[2].max_retries = 1
    /\ threads[2].answers = <<Resp(500, 0, FALSE), Resp(200, 0, FALSE)>>
    /\ threads[2].result.status = 200
    /\ creds.self.token = "t"

\* C25: the headers http_request sends are User-Agent, with the value of the
\* extra headers when they carry one and the product identity otherwise, and
\* Authorization: whenever the credentials yield a value (username and
\* password, or a token) it is that value, whatever the extra headers
\* carry; when they yield none, the Authorization entry of the extra headers
\* is sent unchanged, and none is sent when they have none.
C25_HeaderPrecedence ==
    RequestBuilt
    => /\ DOMAIN request.headers \subseteq {"User-Agent", "Authorization"}
       /\ "User-Agent" \in DOMAIN request.headers
       /\ request.headers["User-Agent"] =
            IF "User-Agent" \in DOMAIN request.extra
            THEN request.extra["User-Agent"]
            ELSE "mlflow-python-client"
       /\ IF (creds.self.username # None /\ creds.self.password # None)
             \/ creds.self.token # None
          THEN /\ "Authorization" \in DOMAIN request.headers
               /\ request.headers["Authorization"]
                    \in {"Basic dTpw", "Basic dTpwdw==", "Bearer t"}
          ELSE /\ "Authorization" \in DOMAIN request.headers
                  <=> "Authorization" \in DOMAIN request.extra
               /\ "Authorization" \in DOMAIN request.headers
                  => request.headers["Authorization"] = request.extra["Authorization"]

C25_Witness ==
    /\ RequestBuilt /\ creds.self.token = "t" /\ creds.self.username = None
    /\ "Authorization" \in DOMAIN request.extra
    /\ request.extra["Authorization"] = "ext-auth"
    /\ request.headers["Authorization"] = "Bearer t"

====
